---- MODULE Spec2Model ----
(***************************************************************************)
(* Model of the gofpdi Importer (src/importer.go): the registry of         *)
(* readers and writers per source document, the global template counter    *)
(* tplN, the template index tplMap and the imported-page cache.            *)
(*                                                                         *)
(* Go strings are sequences of one-character strings, so that the keys     *)
(* built with fmt.Sprintf are computed character by character.  Pointers   *)
(* are addresses of the heap objs; Nil is the nil pointer.  An address is  *)
(* <<kind, key, n>>: the n-th object of that kind allocated for that key.  *)
(***************************************************************************)
EXTENDS Integers, Sequences, FiniteSets, TLC

VARIABLES
    sourceFile,     \* Importer.sourceFile
    readers,        \* Importer.readers: key -> *PdfReader
    writers,        \* Importer.writers: key -> *PdfWriter
    tplMap,         \* Importer.tplMap: int -> TplInfo
    tplN,           \* Importer.tplN
    writer,         \* Importer.writer
    importedPages,  \* Importer.importedPages: string -> int
    objs,           \* the heap: the PdfReader and PdfWriter objects allocated
    ret,            \* what the last call returned to its caller
    returned,       \* <<key, page, box, value>> of every ImportPage that returned
    extracted,      \* <<key, page>> of every call of PdfWriter.ImportPage
    allocated,      \* <<key, page, value>> of the imports that extracted, in order
    lastKey         \* the key of the last SetSourceFile / SetSourceStream call

vars == <<sourceFile, readers, writers, tplMap, tplN, writer, importedPages,
          objs, ret, returned, extracted, allocated, lastKey>>

Nil == <<>>

\* A fresh address for an object of the kind allocated for the key.
NewAddr(heap, kind, key) ==
    <<kind, key,
      1 + Cardinality({a \in DOMAIN heap : a[1] = kind /\ a[2] = key})>>

-----------------------------------------------------------------------------
(* The inputs the callers draw from.                                       *)

\* Width of the page number in the cache key, "%04d".
PageWidth == 4

RECURSIVE Pow10(_)
Pow10(n) == IF n = 0 THEN 1 ELSE 10 * Pow10(n - 1)

\* The first page number that fills the whole width of "%04d".
BigPage == Pow10(PageWidth - 1)

\* Ordinary page numbers the callers ask for are 1..MaxPage.
MaxPage == 1

FileA == <<"A">>
FileAd == <<"A", "-">>
FileX == <<"X">>
Files == {FileA, FileAd, FileX}

\* Addresses of the io.ReadSeeker variables whose pointer the callers pass,
\* and the streams such a variable can hold.
Handles == {1}
Streams == {"S1", "S2"}

Pages == (1 .. MaxPage) \cup {BigPage, 0 - BigPage}
DefaultBox == "/MediaBox"

FileSrc(f) == <<"file", f>>
StreamSrc(s) == <<"stream", s>>

\* Whether NewPdfReader / NewPdfReaderFromStream can parse the source.
Readable(src) == src # FileSrc(FileX)

\* The number of pages of a source document.
NumPages(src) ==
    IF src = FileSrc(FileAd) THEN BigPage
    ELSE IF src = FileSrc(FileA) THEN 3
    ELSE 1

-----------------------------------------------------------------------------
(* fmt.Sprintf                                                             *)

DigitChar(d) == <<"0", "1", "2", "3", "4", "5", "6", "7", "8", "9">>[d + 1]

RECURSIVE Digits(_)
Digits(n) == IF n < 10 THEN <<DigitChar(n)>>
             ELSE Append(Digits(n \div 10), DigitChar(n % 10))

RECURSIVE PadZero(_, _)
PadZero(s, w) == IF Len(s) >= w THEN s ELSE PadZero(<<"0">> \o s, w)

\* "%04d": zero padding to the width, the sign counted in the width.
Fmt04d(n) == IF n < 0 THEN <<"-">> \o PadZero(Digits(0 - n), PageWidth - 1)
             ELSE PadZero(Digits(n), PageWidth)

\* fmt.Sprintf("%s-%04d", file, pageno)
PageNameNumber(file, pageno) == file \o <<"-">> \o Fmt04d(pageno)

\* fmt.Sprintf("%v", rs) of a pointer: its address.
PtrString(h) == <<"0", "x">> \o Digits(h)

-----------------------------------------------------------------------------
(* Accessors                                                               *)

GetReaderForFileIgnoresFile(file) ==
    IF sourceFile \in DOMAIN readers THEN readers[sourceFile] ELSE Nil

GetReaderForFile(file) == IF file \in DOMAIN readers THEN readers[file] ELSE Nil

GetWriterForFile(file) == IF file \in DOMAIN writers THEN writers[file] ELSE Nil

GetReader == GetReaderForFile(sourceFile)

GetWriter == GetWriterForFile(sourceFile)

-----------------------------------------------------------------------------
(* The collaborators, PdfReader and PdfWriter.                             *)

NewPdfReader(src) == [kind |-> "reader", src |-> src]

NewPdfWriter == [kind |-> "writer", tpl_id_offset |-> 0, ntpl |-> 0,
                 use_hash |-> FALSE, n |-> 0]

\* PdfWriter.SetUseHash
SetUseHash(w, b) == [w EXCEPT !.use_hash = b]

SetTplIdOffset(w, n) == [w EXCEPT !.tpl_id_offset = n]

\* PdfWriter.ImportPage fails for a page the reader's document does not have.
WriterImportFails(r, pageno) ==
    \/ r = Nil
    \/ pageno \notin 1 .. NumPages(objs[r].src)

\* The writer-local template id PdfWriter.ImportPage returns.
WriterTplId(w) == objs[w].tpl_id_offset + objs[w].ntpl

-----------------------------------------------------------------------------

Init ==
    /\ sourceFile = <<>>
    /\ readers = <<>>
    /\ writers = <<>>
    /\ tplMap = <<>>
    /\ tplN = 0
    /\ writer = NewAddr(<<>>, "writer", <<>>)
    /\ objs = (writer :> NewPdfWriter)
    /\ importedPages = <<>>
    /\ ret = [op |-> "NewImporter", arg |-> 0, val |-> 0, err |-> "nil",
              extract |-> "none"]
    /\ returned = {}
    /\ extracted = {}
    /\ allocated = <<>>
    /\ lastKey = <<>>

-----------------------------------------------------------------------------
(* Binding a source document.  SetSourceFile and SetSourceStream have the  *)
(* same body after the key is computed.                                    *)

NeedsReaderAlways(key) == TRUE

\* Whether the reader of the key has to be instantiated.
NeedsReader(key) == key \notin DOMAIN readers

NeedsWriterAlways(key) == TRUE

\* Whether the writer of the key has to be instantiated.
NeedsWriter(key) == key \notin DOMAIN writers

\* The template id offset a new writer starts at.
NextTplIdOffset == tplN

BindFailedKeepsNilReader(key) ==
    /\ readers' = (key :> Nil) @@ readers
    /\ UNCHANGED <<writers, objs>>

\* What a bind leaves behind when the reader cannot be constructed.
BindFailedEffect(key) == UNCHANGED <<readers, writers, objs>>

\* NewPdfWriter("") opens no file and returns no error, so the error
\* returns of the writer's construction are never taken.
SetSource(op, key, src) ==
    /\ sourceFile' = key
    /\ lastKey' = key
    /\ IF NeedsReader(key) /\ ~Readable(src)
       THEN /\ ret' = [op |-> op, arg |-> src, val |-> 0, err |-> "error",
                       extract |-> "none"]
            /\ BindFailedEffect(key)
       ELSE LET r == NewAddr(objs, "reader", key)
                w == NewAddr(objs, "writer", key)
                objs1 == IF NeedsReader(key)
                         THEN (r :> NewPdfReader(src)) @@ objs ELSE objs
                readers1 == IF NeedsReader(key)
                            THEN (key :> r) @@ readers ELSE readers
                objs2 == IF NeedsWriter(key)
                         THEN (w :> SetTplIdOffset(NewPdfWriter, NextTplIdOffset))
                              @@ objs1
                         ELSE objs1
                writers1 == IF NeedsWriter(key)
                            THEN (key :> w) @@ writers ELSE writers
            IN /\ readers' = readers1
               /\ writers' = writers1
               /\ objs' = objs2
               /\ ret' = [op |-> op, arg |-> src, val |-> 0, err |-> "nil",
                          extract |-> "none"]
    /\ UNCHANGED <<tplMap, tplN, writer, importedPages, returned, extracted,
                   allocated>>

SetSourceFile(f) == SetSource("SetSourceFile", f, FileSrc(f))

\* rs is the address h of a variable that holds the stream s.
SetSourceStream(h, s) == SetSource("SetSourceStream", PtrString(h), StreamSrc(s))

-----------------------------------------------------------------------------
(* ImportPage                                                              *)

AlreadyImportedNever(pageNameNumber) == FALSE

\* Whether the page has already been imported.
AlreadyImported(pageNameNumber) == pageNameNumber \in DOMAIN importedPages

\* What ImportPage returns when PdfWriter.ImportPage failed.
ImportFailedReturn(pageno) ==
    [op |-> "ImportPage", arg |-> pageno, val |-> 0, err |-> "nil",
     extract |-> "failed"]

ImportFailedConsumesId == tplN' = tplN + 1 /\ UNCHANGED <<tplMap, importedPages>>

\* What ImportPage leaves behind when PdfWriter.ImportPage failed.
ImportFailedEffect == UNCHANGED <<tplMap, tplN, importedPages>>

CurrentTplNOneBased == tplN + 1

\* The template id a new import is registered under.
CurrentTplN == tplN

IncrementTplNForgotten == tplN

\* The counter after a new import.
IncrementTplN == tplN + 1

ImportPage(pageno, box) ==
    LET pageNameNumber == PageNameNumber(sourceFile, pageno) IN
    IF AlreadyImported(pageNameNumber)
    THEN /\ ret' = [op |-> "ImportPage", arg |-> pageno,
                    val |-> importedPages[pageNameNumber], err |-> "nil",
                    extract |-> "none"]
         /\ returned' = returned \cup
                {<<sourceFile, pageno, box, importedPages[pageNameNumber]>>}
         /\ UNCHANGED <<sourceFile, readers, writers, tplMap, tplN, writer,
                        importedPages, objs, extracted, allocated, lastKey>>
    ELSE IF GetWriter = Nil
    THEN \* a method of the nil *PdfWriter is called
         /\ ret' = [op |-> "ImportPage", arg |-> pageno, val |-> 0,
                    err |-> "panic", extract |-> "none"]
         /\ UNCHANGED <<sourceFile, readers, writers, tplMap, tplN, writer,
                        importedPages, objs, returned, extracted, allocated,
                        lastKey>>
    ELSE IF WriterImportFails(GetReader, pageno)
    THEN /\ ret' = ImportFailedReturn(pageno)
         /\ ImportFailedEffect
         /\ returned' = IF ret'.err = "nil"
                        THEN returned \cup {<<sourceFile, pageno, box, ret'.val>>}
                        ELSE returned
         /\ extracted' = extracted \cup {<<sourceFile, pageno>>}
         /\ UNCHANGED <<sourceFile, readers, writers, writer, objs, allocated,
                        lastKey>>
    ELSE LET res == WriterTplId(GetWriter)
             n == CurrentTplN
         IN /\ objs' = [objs EXCEPT ![GetWriter].ntpl = @ + 1]
            /\ tplMap' = (n :> [SourceFile |-> sourceFile, TemplateId |-> res,
                                Writer |-> GetWriter]) @@ tplMap
            /\ tplN' = IncrementTplN
            /\ importedPages' = (pageNameNumber :> n) @@ importedPages
            /\ ret' = [op |-> "ImportPage", arg |-> pageno, val |-> n,
                       err |-> "nil", extract |-> "ok"]
            /\ returned' = returned \cup {<<sourceFile, pageno, box, n>>}
            /\ extracted' = extracted \cup {<<sourceFile, pageno>>}
            /\ allocated' = Append(allocated, <<sourceFile, pageno, n>>)
            /\ UNCHANGED <<sourceFile, readers, writers, writer, lastKey>>

-----------------------------------------------------------------------------
(* UseTemplate                                                             *)

UseTemplateActivating(tplid) ==
    /\ IF tplid \notin DOMAIN tplMap
       THEN /\ ret' = [op |-> "UseTemplate", arg |-> tplid, val |-> 0,
                       err |-> "panic", extract |-> "none"]
            /\ UNCHANGED sourceFile
       ELSE /\ ret' = [op |-> "UseTemplate", arg |-> tplid,
                       val |-> tplMap[tplid].TemplateId, err |-> "nil",
                       extract |-> "none"]
            /\ sourceFile' = tplMap[tplid].SourceFile
    /\ UNCHANGED <<readers, writers, tplMap, tplN, writer, importedPages,
                   objs, returned, extracted, allocated, lastKey>>

UseTemplate(tplid) ==
    /\ IF tplid \notin DOMAIN tplMap
       THEN \* tplInfo is nil and tplInfo.Writer dereferences it
            ret' = [op |-> "UseTemplate", arg |-> tplid, val |-> 0,
                    err |-> "panic", extract |-> "none"]
       ELSE ret' = [op |-> "UseTemplate", arg |-> tplid,
                    val |-> tplMap[tplid].TemplateId, err |-> "nil",
                    extract |-> "none"]
    /\ UNCHANGED <<sourceFile, readers, writers, tplMap, tplN, writer,
                   importedPages, objs, returned, extracted, allocated,
                        lastKey>>

-----------------------------------------------------------------------------
(* The calls that change nothing but what they return.                     *)

Result(op, arg, val, err) ==
    [op |-> op, arg |-> arg, val |-> val, err |-> err, extract |-> "none"]

\* A call that returns r and assigns no field of the Importer.
Returns(r) ==
    /\ ret' = r
    /\ UNCHANGED <<sourceFile, readers, writers, tplMap, tplN, writer,
                   importedPages, objs, returned, extracted, allocated,
                   lastKey>>

CallGetReader == Returns(Result("GetReader", 0, GetReader, "nil"))

CallGetWriter == Returns(Result("GetWriter", 0, GetWriter, "nil"))

CallGetReaderForFile(file) ==
    Returns(Result("GetReaderForFile", file, GetReaderForFile(file), "nil"))

CallGetWriterForFile(file) ==
    Returns(Result("GetWriterForFile", file, GetWriterForFile(file), "nil"))

\* PdfReader.getNumPages and getAllPageBoxes read the fields of their
\* receiver: on the nil reader they panic.
GetNumPages ==
    IF GetReader = Nil
    THEN Returns(Result("GetNumPages", 0, 0, "panic"))
    ELSE Returns(Result("GetNumPages", 0, NumPages(objs[GetReader].src), "nil"))

GetPageSizes ==
    IF GetReader = Nil
    THEN Returns(Result("GetPageSizes", 0, 0, "panic"))
    ELSE Returns(Result("GetPageSizes", 0, NumPages(objs[GetReader].src), "nil"))

\* The three getters of the imported objects read the writer's fields.
ImportedObjectsGetter(op) ==
    IF GetWriter = Nil
    THEN Returns(Result(op, 0, 0, "panic"))
    ELSE Returns(Result(op, 0, objs[GetWriter].use_hash, "nil"))

GetImportedObjects == ImportedObjectsGetter("GetImportedObjects")

GetImportedObjectsUnordered == ImportedObjectsGetter("GetImportedObjectsUnordered")

GetImportedObjHashPos == ImportedObjectsGetter("GetImportedObjHashPos")

-----------------------------------------------------------------------------
(* The calls that change the active writer.                                *)

\* A call that returns r and leaves the heap as heap.
WriterCall(r, heap) ==
    /\ ret' = r
    /\ objs' = heap
    /\ UNCHANGED <<sourceFile, readers, writers, tplMap, tplN, writer,
                   importedPages, returned, extracted, allocated, lastKey>>

SetNextObjectID(objId) ==
    IF GetWriter = Nil
    THEN Returns(Result("SetNextObjectID", objId, 0, "panic"))
    ELSE WriterCall(Result("SetNextObjectID", objId, 0, "nil"),
                    [objs EXCEPT ![GetWriter].n = objId])

\* PdfWriter.PutFormXobjects returns the template names with their object
\* ids or an error; the value recorded is the mode the writer exported in.
PutFormXobjects(ok) ==
    IF GetWriter = Nil
    THEN Returns(Result("PutFormXobjects", 0, 0, "panic"))
    ELSE Returns(Result("PutFormXobjects", 0, objs[GetWriter].use_hash,
                        IF ok THEN "nil" ELSE "error"))

HashWriterOfSomeKey ==
    IF DOMAIN writers = {} THEN Nil
    ELSE writers[CHOOSE k \in DOMAIN writers : TRUE]

\* The writer PutFormXobjectsUnordered switches to hash mode.
HashWriter == GetWriter

PutFormXobjectsUnordered(ok) ==
    IF HashWriter = Nil
    THEN Returns(Result("PutFormXobjectsUnordered", 0, 0, "panic"))
    ELSE LET heap == [objs EXCEPT ![HashWriter] = SetUseHash(@, TRUE)] IN
         IF GetWriter = Nil
         THEN WriterCall(Result("PutFormXobjectsUnordered", 0, 0, "panic"), heap)
         ELSE WriterCall(Result("PutFormXobjectsUnordered", 0,
                                heap[GetWriter].use_hash,
                                IF ok THEN "nil" ELSE "error"), heap)

-----------------------------------------------------------------------------
(* The specifications.  Spec binds files; SpecStream binds streams and a   *)
(* file; SpecBox imports the pages of one file with either box; SpecOps    *)
(* makes every call of the Importer on the files.                          *)

\* The template ids the callers of UseTemplate pass: the allocated ones, and
\* on either side one that is not.
TplIds == (0 - 1) .. tplN

Next ==
    \/ \E f \in Files : SetSourceFile(f)
    \/ \E pageno \in Pages : ImportPage(pageno, DefaultBox)
    \/ \E tplid \in TplIds : UseTemplate(tplid)

Spec == Init /\ [][Next]_vars

NextStream ==
    \/ \E f \in {FileA} : SetSourceFile(f)
    \/ \E h \in Handles, s \in Streams : SetSourceStream(h, s)
    \/ \E pageno \in 0 .. MaxPage : ImportPage(pageno, DefaultBox)
    \/ \E tplid \in TplIds : UseTemplate(tplid)

SpecStream == Init /\ [][NextStream]_vars

\* The boxes the callers of ImportPage name.
Boxes == {DefaultBox, "/CropBox"}

NextBox ==
    \/ \E f \in {FileA} : SetSourceFile(f)
    \/ \E pageno \in 0 .. (MaxPage + 1), box \in Boxes : ImportPage(pageno, box)
    \/ \E tplid \in TplIds : UseTemplate(tplid)

SpecBox == Init /\ [][NextBox]_vars

\* The object id the callers of SetNextObjectID reserve.
ObjIds == {3}

NextOps ==
    \/ \E f \in Files : SetSourceFile(f)
    \/ \E pageno \in 1 .. MaxPage : ImportPage(pageno, DefaultBox)
    \/ \E tplid \in TplIds : UseTemplate(tplid)
    \/ CallGetReader
    \/ CallGetWriter
    \/ \E f \in Files : CallGetReaderForFile(f)
    \/ \E f \in Files : CallGetWriterForFile(f)
    \/ GetNumPages
    \/ GetPageSizes
    \/ \E objId \in ObjIds : SetNextObjectID(objId)
    \/ \E ok \in BOOLEAN : PutFormXobjects(ok)
    \/ \E ok \in BOOLEAN : PutFormXobjectsUnordered(ok)
    \/ GetImportedObjects
    \/ GetImportedObjectsUnordered
    \/ GetImportedObjHashPos

SpecOps == Init /\ [][NextOps]_vars

-----------------------------------------------------------------------------
(* Idempotence of ImportPage                                               *)

\* C1: two calls of ImportPage for the same document, page and box return
\* the same template id, whatever happens in between.
C1_SameTripleSameId ==
    \A x \in returned, y \in returned :
        (x[1] = y[1] /\ x[2] = y[2] /\ x[3] = y[3]) => x[4] = y[4]

-----------------------------------------------------------------------------
(* Uniqueness across documents                                             *)

\* C3: a value ImportPage returned for one document is never a value it
\* returned for another document, failed extractions included.
C3_DistinctDocsDistinctIds ==
    \A x \in returned, y \in returned : x[1] # y[1] => x[4] # y[4]

\* C4: the writer-local template ids of the TplInfo entries of different
\* documents are pairwise distinct.
C4_WriterLocalIdsDistinct ==
    \A t1 \in DOMAIN tplMap, t2 \in DOMAIN tplMap :
        tplMap[t1].SourceFile # tplMap[t2].SourceFile
            => tplMap[t1].TemplateId # tplMap[t2].TemplateId

-----------------------------------------------------------------------------
(* Failed extraction                                                       *)

\* C5: when PdfWriter.ImportPage fails, ImportPage returns an error and no
\* template id.
C5_FailureReported ==
    (ret.op = "ImportPage" /\ ret.extract = "failed") => ret.err = "error"

\* C6: an ImportPage whose extraction fails leaves tplN, tplMap and
\* importedPages as they were.
C6_FailedImportKeepsState ==
    [][(ret'.op = "ImportPage" /\ ret'.extract = "failed")
          => (tplN' = tplN /\ tplMap' = tplMap /\ importedPages' = importedPages)]_vars

\* An extraction failed after pages had been imported and cached.
C6_Witness ==
    /\ ret.op = "ImportPage" /\ ret.extract = "failed"
    /\ tplN >= 2
    /\ <<sourceFile, ret.arg>> \in extracted

-----------------------------------------------------------------------------
(* UseTemplate                                                             *)

\* C7: UseTemplate of a value ImportPage returned does not fail, and
\* UseTemplate of an id that was never allocated fails with
\* UnknownTemplateError.
C7_UseTemplateErrors ==
    ret.op = "UseTemplate" =>
        /\ (\E x \in returned : x[4] = ret.arg) => ret.err = "nil"
        /\ ret.arg \notin DOMAIN tplMap => ret.err = "UnknownTemplateError"

-----------------------------------------------------------------------------
(* Allocation of template ids                                              *)

C9_DenseFromZero ==
    \A i \in 1 .. Len(allocated) : allocated[i][3] = i - 1

\* Two pages of one document were imported, the first one imported again
\* from the cache, and then a page of another document.
C9_Witness ==
    /\ Len(allocated) = 3
    /\ allocated[1][1] = allocated[2][1]
    /\ allocated[3][1] # allocated[1][1]
    /\ \E x \in returned : x[1] = allocated[1][1] /\ x[2] = allocated[1][2]
    /\ ret.op = "ImportPage" /\ ret.extract = "ok" /\ ret.val = 2
    /\ sourceFile = allocated[3][1]

-----------------------------------------------------------------------------
(* Binding again                                                           *)

\* C10: binding a key that has a reader and a writer changes neither the
\* registries, nor the reader and writer objects, nor tplN, tplMap and
\* importedPages.
C10_RebindKeepsRegistry ==
    [][(/\ ret'.op \in {"SetSourceFile", "SetSourceStream"}
        /\ sourceFile' \in DOMAIN readers
        /\ sourceFile' \in DOMAIN writers)
          => (/\ readers' = readers /\ writers' = writers /\ objs' = objs
              /\ tplN' = tplN /\ tplMap' = tplMap
              /\ importedPages' = importedPages)]_vars

\* A stream key was bound again after pages of it and of another document
\* had been imported.
C10_Witness ==
    /\ ret.op = "SetSourceStream" /\ ret.err = "nil"
    /\ \E t \in DOMAIN tplMap : tplMap[t].SourceFile = sourceFile
    /\ \E t \in DOMAIN tplMap : tplMap[t].SourceFile # sourceFile

-----------------------------------------------------------------------------
(* Page metadata queries                                                   *)

\* C11: GetNumPages and GetPageSizes called while the active key has no
\* reader return a DocumentNotBoundError to the caller.
C11_UnboundQueryReturnsError ==
    (ret.op \in {"GetNumPages", "GetPageSizes"} /\ sourceFile \notin DOMAIN readers)
        => ret.err = "DocumentNotBoundError"

-----------------------------------------------------------------------------
(* Failed binds                                                            *)

BindOps == {"SetSourceFile", "SetSourceStream"}

\* C12: a bind that fails leaves the readers, the writers, the template
\* index, the page cache, the template counter and the reader and writer
\* objects as they were, so every template id UseTemplate accepted before
\* is accepted after; and a bind of a key that already has its reader and
\* writer changes the active key only, so the state after re-binding is the
\* state a re-bind without the failed bind would have produced.
C12_FailedBindKeepsOthers ==
    [][ /\ (ret'.op \in BindOps /\ ret'.err = "error")
            => /\ UNCHANGED <<readers, writers, tplMap, tplN, importedPages, objs>>
               /\ \A t \in DOMAIN tplMap :
                      /\ t \in DOMAIN tplMap'
                      /\ tplMap'[t].Writer \in DOMAIN objs'
        /\ (/\ ret'.op \in BindOps
            /\ lastKey' \in DOMAIN readers
            /\ lastKey' \in DOMAIN writers)
            => /\ sourceFile' = lastKey'
               /\ ret'.err = "nil"
               /\ UNCHANGED <<readers, writers, tplMap, tplN, importedPages, objs>>
      ]_vars

\* A bind has just failed while an earlier document holds a template.
C12_Witness ==
    /\ ret.op \in BindOps
    /\ ret.err = "error"
    /\ tplN >= 1
    /\ DOMAIN readers # {}
    /\ sourceFile \notin DOMAIN readers

-----------------------------------------------------------------------------
(* Accessors                                                               *)

\* The variables that model fields of the Importer and the objects they
\* point to.
ImporterState == <<sourceFile, readers, writers, tplMap, tplN, writer, importedPages, objs>>

-----------------------------------------------------------------------------
(* UseTemplate                                                             *)

\* C14: UseTemplate, whatever template id it is given, leaves the active
\* key, the readers, the writers, the template index, the template counter
\* and the page cache unchanged.
C14_UseTemplateChangesNothing ==
    [][ ret'.op = "UseTemplate"
            => UNCHANGED <<sourceFile, readers, writers, tplMap, tplN, writer,
                           importedPages>> ]_vars

\* UseTemplate has answered for a template of a document that is not the
\* active one.
C14_Witness ==
    /\ ret.op = "UseTemplate"
    /\ ret.err = "nil"
    /\ ret.arg \in DOMAIN tplMap
    /\ tplMap[ret.arg].SourceFile # sourceFile

-----------------------------------------------------------------------------
(* Crashes                                                                 *)

\* C15: no call of ImportPage, PutFormXobjects, PutFormXobjectsUnordered,
\* the GetImportedObjects getters, SetNextObjectID, GetNumPages,
\* GetPageSizes or UseTemplate panics: each completes or returns an error.
C15_NoOperationPanics == ret.err # "panic"

-----------------------------------------------------------------------------
(* The box of an import                                                    *)

\* C16: when a page of a document was imported successfully with one box,
\* an ImportPage of the same page of the same document with another box
\* returns the template id of the first import, extracts nothing and
\* changes neither tplN, tplMap nor importedPages.
C16_BoxNotInKey ==
    [][ \A t \in returned' \ returned :
            \A i \in 1 .. Len(allocated) :
                (/\ allocated[i][1] = t[1]
                 /\ allocated[i][2] = t[2]
                 /\ \E u \in returned : /\ u[1] = t[1]
                                         /\ u[2] = t[2]
                                         /\ u[3] # t[3]
                                         /\ u[4] = allocated[i][3])
                => /\ t[4] = allocated[i][3]
                   /\ ret'.op = "ImportPage"
                   /\ ret'.extract = "none"
                   /\ extracted' = extracted
                   /\ UNCHANGED <<tplN, tplMap, importedPages>>
      ]_vars

\* A page imported with one box has been imported again with the other.
C16_Witness ==
    /\ ret.op = "ImportPage"
    /\ ret.extract = "none"
    /\ \E t, u \in returned : /\ t[1] = u[1]
                              /\ t[2] = u[2]
                              /\ t[2] = ret.arg
                              /\ t[3] # u[3]
                              /\ t[4] = u[4]
                              /\ \E i \in 1 .. Len(allocated) :
                                     allocated[i] = <<t[1], t[2], t[4]>>

-----------------------------------------------------------------------------
(* The registries                                                          *)

-----------------------------------------------------------------------------
(* Stream sources                                                          *)

\* C18: after SetSourceStream has bound a stream, the active reader is a
\* reader of that stream: two different streams never share a key and a
\* reader.
C18_StreamReaderIsOfStream ==
    (ret.op = "SetSourceStream" /\ ret.err = "nil")
        => /\ GetReader # Nil
           /\ objs[GetReader].src = ret.arg

-----------------------------------------------------------------------------
(* The bookkeeping of ImportPage                                           *)

\* C19: tplMap has exactly the keys 0 .. tplN - 1; importedPages maps
\* different keys to different template ids, each of them a key of tplMap;
\* every key of tplMap is the value of exactly one entry of importedPages;
\* and the writer recorded in an entry of tplMap is the writer registered
\* under the entry's SourceFile.
C19_BookkeepingConsistent ==
    /\ DOMAIN tplMap = 0 .. (tplN - 1)
    /\ \A k \in DOMAIN importedPages : importedPages[k] \in DOMAIN tplMap
    /\ \A k1, k2 \in DOMAIN importedPages :
           importedPages[k1] = importedPages[k2] => k1 = k2
    /\ \A t \in DOMAIN tplMap :
           Cardinality({k \in DOMAIN importedPages : importedPages[k] = t}) = 1
    /\ \A t \in DOMAIN tplMap :
           /\ tplMap[t].SourceFile \in DOMAIN writers
           /\ tplMap[t].Writer = writers[tplMap[t].SourceFile]

\* Templates of two documents are registered.
C19_Witness ==
    /\ tplN >= 2
    /\ \E t1, t2 \in DOMAIN tplMap : tplMap[t1].SourceFile # tplMap[t2].SourceFile
    /\ Cardinality(DOMAIN importedPages) >= 2

-----------------------------------------------------------------------------
(* Hash mode                                                               *)

\* The writers that exist.
Writers == {a \in DOMAIN objs : objs[a].kind = "writer"}

\* C20: PutFormXobjectsUnordered switches the writer of the active key to
\* hash mode and leaves the mode of every other writer as it was; no call
\* switches a writer out of hash mode; and PutFormXobjects on a key whose
\* writer is in hash mode exports in hash mode.
C20_HashModeOnlySwitchedOn ==
    [][ /\ ret'.op = "PutFormXobjectsUnordered"
            => /\ \A a \in Writers \ {GetWriter} :
                      objs'[a].use_hash = objs[a].use_hash
               /\ GetWriter # Nil => objs'[GetWriter].use_hash
        /\ ret'.op # "PutFormXobjectsUnordered"
            => \A a \in Writers : objs'[a].use_hash = objs[a].use_hash
        /\ \A a \in Writers :
               /\ a \in DOMAIN objs'
               /\ objs[a].use_hash => objs'[a].use_hash
        /\ (/\ ret'.op = "PutFormXobjects"
            /\ GetWriter # Nil
            /\ objs[GetWriter].use_hash)
            => /\ ret'.val = TRUE
               /\ objs'[GetWriter].use_hash
      ]_vars

\* Of two writers one is in hash mode and the other is not, and the
\* active document has been exported with PutFormXobjects in hash mode.
C20_Witness ==
    /\ ret.op = "PutFormXobjects"
    /\ ret.err = "nil"
    /\ ret.val = TRUE
    /\ GetWriter # Nil
    /\ objs[GetWriter].use_hash
    /\ \E a \in Writers : ~objs[a].use_hash

====
